---- MODULE Spec2Model ----
(***************************************************************************)
(* Messenger webhook pipeline of ai-sales-agent:                           *)
(*   POST /api/webhook/messenger  (src/app/api/webhook/messenger/route.ts) *)
(*   verifyWebhookSignature, sendMessage           (lib/facebook)          *)
(*   generateChatbotResponse                       (lib/gemini.ts)         *)
(*   encrypt, decrypt                              (lib/encryption)        *)
(*   parseGeminiResponse                           (lib/chatbot-utils)     *)
(* One handler invocation is modelled step by step: every await of the     *)
(* code is a position (pc) at which the awaited call is outstanding, and   *)
(* every way such a call can settle is an action.  The pure functions      *)
(* (verifier, classifier, cipher) are also called directly on bounded      *)
(* inputs, each under a specification of its own.                          *)
(***************************************************************************)
EXTENDS Integers, Sequences, FiniteSets, TLC

\* ------------------------------------------------------------------ bounds
MaxEvents == 2        \* messaging events per webhook delivery
MaxHeaderLen == 4     \* tokens in a signature header (verifier runs)
MaxAnswerLen == 4     \* elements of a generated answer (classifier runs)
MaxCatalogLen == 2    \* products in a catalog (classifier runs)
HexBase == 2          \* digits of the hex alphabet (cipher at reduced width)
BlockSize == 2        \* bytes of a cipher block and of the IV (reduced width)
MaxPlainLen == 2      \* characters of a plaintext (cipher runs)
MaxGarbageLen == 7    \* characters of an arbitrary decrypt input (cipher runs)
NumDeliveries == 2    \* webhook deliveries handled at the same time
MaxTicks == 5         \* clock steps of five minutes (rate limiter runs)
MaxCalls == 6         \* counted calls per rate limiter entry
MaxLogins == 2        \* authorize calls in progress at the same time

\* ------------------------------------------------------- program constants
GEMINI_TIMEOUT_MS == 5000
maxRetries == 1
BackoffBaseMs == 1000

VARIABLES
  env,                    \* process.env entries the pipeline reads
  facebookPageConnection, \* table facebook_page_connections: page id -> row
  request,                \* the inbound POST: signature header and raw body
  pc,                     \* position of the handler
  eventIndex,             \* index of the messaging event being processed
  messageLog,             \* route.ts messageLog
  responses,              \* statuses of the responses POST has returned
  evOutcome,              \* how each event processed so far ended
  pageConnection,         \* processMessagingEvent local: row read at lookup
  products,               \* processMessagingEvent local: catalog read
  aiResponse,             \* processMessagingEvent local: generated answer
  chatbotError,           \* error caught by processMessagingEvent's catch
  genTimer,               \* setTimeout handle of generateChatbotResponse
  genElapsed,             \* whether GEMINI_TIMEOUT_MS passed since the fetch
  genStatus,              \* HTTP status of the generation response
  lateResponses,          \* aborted generation calls whose answer is in flight
  attempt,                \* sendMessage loop variable
  lastError,              \* sendMessage lastError
  lookups,                \* findUnique calls issued for the current event
  catalogFetches,         \* findMany calls issued for the current event
  genRequests,            \* generation fetches issued for the current event
  decrypts,               \* decrypt calls made for the current event
  sendRequests,           \* send requests issued (current event)
  sendOutcomes,           \* what the delivery service answered (current event)
  backoffs,               \* backoff waits started (current event), in ms
  verifyCall,             \* one direct call of verifyWebhookSignature
  parseCall,              \* one direct call of parseGeminiResponse
  cipherCall,             \* direct calls of encrypt and decrypt
  getCall,                \* one webhook verification request (GET)
  handlers,               \* POST invocations in progress at the same time
  rateLimitStore,         \* the rate limiter's Map, as a function of the key
  now,                    \* Date.now()
  limiter,                \* checkRateLimit: configuration, last result, grants
  logins                  \* authorize calls in progress, and the lockout seen

handlerVars == <<env, facebookPageConnection, request, pc, eventIndex,
                 messageLog, responses, evOutcome>>
eventVars == <<pageConnection, products, aiResponse, chatbotError>>
genVars == <<genTimer, genElapsed, genStatus, lateResponses>>
sendVars == <<attempt, lastError, sendRequests, sendOutcomes, backoffs>>
countVars == <<lookups, catalogFetches, genRequests, decrypts>>
limiterVars == <<rateLimitStore, now, limiter, logins>>
extraVars == <<getCall, handlers, limiterVars>>
pureVars == <<parseCall, cipherCall, extraVars>>
vars == <<handlerVars, eventVars, genVars, sendVars, countVars, verifyCall, pureVars>>

\* --------------------------------------------------------------- strings
\* A string is a sequence of characters; a literal the code searches for,
\* and a word without white space or punctuation of interest, is written as
\* one element.
IsLineTerminator(c) == c = "\n"

\* white space as trim() and the regular expression class \s see it
IsSpace(c) == c = " " \/ IsLineTerminator(c)

RECURSIVE TrimStart(_)
TrimStart(s) ==
  IF s = <<>> THEN <<>>
  ELSE IF IsSpace(Head(s)) THEN TrimStart(Tail(s)) ELSE s

RECURSIVE TrimEnd(_)
TrimEnd(s) ==
  IF s = <<>> THEN <<>>
  ELSE IF IsSpace(s[Len(s)]) THEN TrimEnd(SubSeq(s, 1, Len(s) - 1)) ELSE s

\* String.prototype.trim
Trim(s) == TrimEnd(TrimStart(s))

\* ------------------------------------------------------ request bodies
\* A raw body is a string; here a sequence of codes.  JSON.parse reads the
\* first code as the envelope (1: object "page", 2: another object type,
\* 3: object "page" without an entry list; anything else is no JSON) and
\* each further code as one messaging event, in payload order, each event
\* carrying the id of its entry.
KnownPage == "page_1"
UnknownPage == "page_x"

TextEvent(page, text) ==
  [hasSender |-> TRUE, senderId |-> "psid_1", hasMessage |-> TRUE,
   text |-> text, pageId |-> page]

EventCodes == 1..6

EventOfCode(k) ==
  CASE k = 1 -> TextEvent(KnownPage, <<"H", "i">>)
    [] k = 2 -> TextEvent(UnknownPage, <<"H", "i">>)
    [] k = 3 -> TextEvent(KnownPage, <<" ">>)
    [] k = 4 -> TextEvent(KnownPage, <<>>)
    [] k = 5 -> [TextEvent(KnownPage, <<>>) EXCEPT !.hasMessage = FALSE]
    [] OTHER -> [TextEvent(KnownPage, <<"H", "i">>) EXCEPT !.hasSender = FALSE]

RECURSIVE SeqsUpTo(_, _)
SeqsUpTo(S, n) ==
  IF n = 0 THEN {<<>>}
  ELSE LET shorter == SeqsUpTo(S, n - 1)
       IN shorter \cup {Append(s, x) : s \in {t \in shorter : Len(t) = n - 1}, x \in S}

NotJsonBody == <<0>>
UserObjectBody == <<2>>
NoEntryBody == <<3>>
PageBody(codes) == <<1>> \o codes

BodySamples ==
  {NotJsonBody, UserObjectBody, NoEntryBody}
    \cup {PageBody(ks) : ks \in SeqsUpTo(EventCodes, MaxEvents)}

\* JSON.parse(body)
JSONParse(body) ==
  IF body = <<>> \/ body[1] \notin {1, 2, 3}
    THEN [ok |-> FALSE, object |-> "", entryIterable |-> FALSE, entry |-> <<>>]
  ELSE [ok |-> TRUE,
        object |-> IF body[1] = 2 THEN "user" ELSE "page",
        entryIterable |-> body[1] # 3,
        entry |-> [i \in 1..(Len(body) - 1) |-> EventOfCode(body[i + 1])]]

\* ------------------------------------------------- signature verifier
\* A header is absent or a sequence of tokens: the literal "sha256=", a
\* character that is no hex digest material ("x"), or one half of the hex
\* HMAC-SHA256 of a body under a secret.
Tok(c, secret, body) == [c |-> c, secret |-> secret, body |-> body]
PrefixTok == Tok("sha256=", "", <<>>)
JunkTok == Tok("x", "", <<>>)

\* crypto.createHmac('sha256', appSecret).update(body).digest('hex')
HmacSha256Hex(appSecret, body) ==
  <<Tok("hmac_hi", appSecret, body), Tok("hmac_lo", appSecret, body)>>

NoHeader == [present |-> FALSE, value |-> <<>>]
Header(tokens) == [present |-> TRUE, value |-> tokens]

\* String.prototype.split on a separator that is one token long
RECURSIVE Split(_, _)
Split(s, sep) ==
  IF \A i \in 1..Len(s) : s[i] # sep THEN <<s>>
  ELSE LET i == CHOOSE k \in 1..Len(s) :
                  s[k] = sep /\ \A j \in 1..(k - 1) : s[j] # sep
       IN <<SubSeq(s, 1, i - 1)>> \o Split(SubSeq(s, i + 1, Len(s)), sep)

\* crypto.timingSafeEqual: throws on buffers of different length
timingSafeEqual(a, b) ==
  IF Len(a) # Len(b) THEN "throws" ELSE IF a = b THEN "true" ELSE "false"

verifyWebhookSignature(signature, body, appSecret) ==
  IF ~signature.present \/ signature.value = <<>> THEN FALSE
  ELSE LET parts == Split(signature.value, PrefixTok)
       IN IF Len(parts) < 2 \/ parts[2] = <<>> THEN FALSE
          ELSE timingSafeEqual(parts[2], HmacSha256Hex(appSecret, body)) = "true"

\* ------------------------------------------------------- chatbot-utils
OutOfScopeSignal == "OUT_OF_SCOPE"
AlternativeSignal == "ALTERNATIVE:"

\* variant: the literal is searched for anywhere in the string
startsWithAnywhere(s, literal) == \E i \in 1..Len(s) : s[i] = literal

\* String.prototype.startsWith for a literal that is one element
startsWith(s, literal) == s # <<>> /\ s[1] = literal

getOutOfScopeMessage ==
  <<"I can only answer questions about our products. For other inquiries, please contact the shop owner directly.">>

getAlternativeSuggestionMessage(product) ==
  <<"I don't have that exact item, but we have ">> \o product.name
    \o <<" for ", product.price, ". Would that work for you?">>

\* the longest prefix of s that "." can match: up to the first line terminator
RECURSIVE FirstLine(_)
FirstLine(s) ==
  IF s = <<>> \/ IsLineTerminator(Head(s)) THEN <<>>
  ELSE <<Head(s)>> \o FirstLine(Tail(s))

NoMatch == [matched |-> FALSE, group |-> <<>>]

\* variant: the capture runs to the end of the input
AlternativeMatchDotAll(r) ==
  IF TrimStart(r) # <<>> THEN [matched |-> TRUE, group |-> TrimStart(r)]
  ELSE IF r # <<>> THEN [matched |-> TRUE, group |-> <<r[Len(r)]>>]
  ELSE NoMatch

\* trimmedResponse.match(/^ALTERNATIVE:\s*(.+)/) for a trimmedResponse that
\* starts with the prefix, r being what follows the prefix: \s* is greedy
\* and gives back white space only when nothing else is left for (.+)
AlternativeMatch(r) ==
  IF TrimStart(r) # <<>> THEN [matched |-> TRUE, group |-> FirstLine(TrimStart(r))]
  ELSE IF \E i \in 1..Len(r) : ~IsLineTerminator(r[i])
    THEN LET i == CHOOSE k \in 1..Len(r) :
                    /\ ~IsLineTerminator(r[k])
                    /\ \A j \in (k + 1)..Len(r) : IsLineTerminator(r[j])
         IN [matched |-> TRUE, group |-> <<r[i]>>]
  ELSE NoMatch

\* products.find(p => p.name === name): index of the first match, 0 if none
Find(products_, name) ==
  IF \E i \in 1..Len(products_) : products_[i].name = name
    THEN CHOOSE i \in 1..Len(products_) :
           /\ products_[i].name = name
           /\ \A j \in 1..(i - 1) : products_[j].name # name
  ELSE 0

ChatbotResponse(type, text, hasSuggested, suggested) ==
  [threw |-> FALSE, type |-> type, text |-> text,
   hasSuggestedProduct |-> hasSuggested, suggestedProduct |-> suggested]

\* throw new Error('AI response cannot be empty')
ParseThrows ==
  [threw |-> TRUE, type |-> "", text |-> <<>>,
   hasSuggestedProduct |-> FALSE, suggestedProduct |-> <<>>]

\* variant: the alternative branch leaves suggestedProduct out
parseGeminiResponseNoSuggestion(aiResponse_, products_) ==
  IF aiResponse_ = <<>> \/ Trim(aiResponse_) = <<>> THEN ParseThrows
  ELSE LET trimmedResponse == Trim(aiResponse_)
           m == AlternativeMatch(Tail(trimmedResponse))
           i == IF m.matched THEN Find(products_, Trim(m.group)) ELSE 0
       IN IF startsWith(trimmedResponse, OutOfScopeSignal)
            THEN ChatbotResponse("out-of-scope", getOutOfScopeMessage, FALSE, <<>>)
          ELSE IF startsWith(trimmedResponse, AlternativeSignal) /\ i # 0
            THEN ChatbotResponse("alternative",
                   getAlternativeSuggestionMessage(products_[i]), FALSE, <<>>)
          ELSE ChatbotResponse("normal", trimmedResponse, FALSE, <<>>)

parseGeminiResponse(aiResponse_, products_) ==
  IF aiResponse_ = <<>> \/ Trim(aiResponse_) = <<>> THEN ParseThrows
  ELSE LET trimmedResponse == Trim(aiResponse_)
           m == AlternativeMatch(Tail(trimmedResponse))
           i == IF m.matched THEN Find(products_, Trim(m.group)) ELSE 0
       IN IF startsWith(trimmedResponse, OutOfScopeSignal)
            THEN ChatbotResponse("out-of-scope", getOutOfScopeMessage, FALSE, <<>>)
          ELSE IF startsWith(trimmedResponse, AlternativeSignal) /\ i # 0
            THEN ChatbotResponse("alternative",
                   getAlternativeSuggestionMessage(products_[i]), TRUE,
                   Trim(m.group))
          ELSE ChatbotResponse("normal", trimmedResponse, FALSE, <<>>)

\* ------------------------------------------------------ credential cipher
\* AES-256-CBC with PKCS#7 padding and hex encoding, at reduced width: a hex
\* digit is one of HexBase digits, a byte is two digits, a block (and the
\* IV) is BlockSize bytes.
ByteMod == HexBase * HexBase
ByteValues == 0..(ByteMod - 1)

HexDigits == <<"0", "1", "2", "3", "4", "5", "6", "7",
               "8", "9", "a", "b", "c", "d", "e", "f">>
IsHexDigit(c) == \E d \in 1..HexBase : HexDigits[d] = c
HexValue(c) == (CHOOSE d \in 1..HexBase : HexDigits[d] = c) - 1

\* characters of a plaintext, by character code
Alphabet == <<"a", "b", "c", "d", "e", "f", "g", "h",
              "i", "j", "k", "l", "m", "n", "o", "p">>

\* Buffer.from(text, 'utf8')
Utf8Encode(text) ==
  [i \in 1..Len(text) |-> (CHOOSE k \in 1..ByteMod : Alphabet[k] = text[i]) - 1]

\* buffer.toString('utf8')
Utf8Decode(bytes) == [i \in 1..Len(bytes) |-> Alphabet[bytes[i] + 1]]

\* buffer.toString('hex')
RECURSIVE ToHex(_)
ToHex(bytes) ==
  IF bytes = <<>> THEN <<>>
  ELSE <<HexDigits[(Head(bytes) \div HexBase) + 1],
         HexDigits[(Head(bytes) % HexBase) + 1]>> \o ToHex(Tail(bytes))

\* Buffer.from(s, 'hex'): decoding stops, without an error, at the first
\* pair that is not two hex digits; a trailing single character is dropped
RECURSIVE FromHex(_)
FromHex(s) ==
  IF Len(s) < 2 \/ ~IsHexDigit(s[1]) \/ ~IsHexDigit(s[2]) THEN <<>>
  ELSE <<HexValue(s[1]) * HexBase + HexValue(s[2])>> \o FromHex(SubSeq(s, 3, Len(s)))

\* the key getEncryptionKey returns for a well-formed ENCRYPTION_KEY
KeyBytes == [i \in 1..BlockSize |-> i % ByteMod]

\* the exclusive-or of CBC chaining, as addition in the bytes mod ByteMod,
\* and its inverse
BlockAdd(a, b) == [i \in 1..BlockSize |-> (a[i] + b[i]) % ByteMod]
BlockSub(a, b) == [i \in 1..BlockSize |-> (a[i] + ByteMod - b[i]) % ByteMod]

\* the block cipher: a keyed permutation of the blocks, and its inverse
EncryptBlock(b, key) ==
  [i \in 1..BlockSize |-> (b[BlockSize + 1 - i] + key[i]) % ByteMod]
DecryptBlock(c, key) ==
  [i \in 1..BlockSize |->
     (c[BlockSize + 1 - i] + ByteMod - key[BlockSize + 1 - i]) % ByteMod]

\* PKCS#7: 1..BlockSize bytes are appended, each holding their number
Pkcs7Pad(bytes) ==
  LET n == BlockSize - (Len(bytes) % BlockSize)
  IN bytes \o [i \in 1..n |-> n]

UnpadFailure == [ok |-> FALSE, bytes |-> <<>>]

Pkcs7Unpad(bytes) ==
  IF bytes = <<>> THEN UnpadFailure
  ELSE LET n == bytes[Len(bytes)]
       IN IF n < 1 \/ n > BlockSize \/ n > Len(bytes) THEN UnpadFailure
          ELSE IF \E i \in (Len(bytes) - n + 1)..Len(bytes) : bytes[i] # n
            THEN UnpadFailure
          ELSE [ok |-> TRUE, bytes |-> SubSeq(bytes, 1, Len(bytes) - n)]

\* CBC over whole blocks; previous is the IV, then the last cipher block
RECURSIVE CbcEncrypt(_, _, _)
CbcEncrypt(bytes, key, previous) ==
  IF Len(bytes) < BlockSize THEN <<>>
  ELSE LET c == EncryptBlock(BlockAdd(SubSeq(bytes, 1, BlockSize), previous), key)
       IN c \o CbcEncrypt(SubSeq(bytes, BlockSize + 1, Len(bytes)), key, c)

RECURSIVE CbcDecrypt(_, _, _)
CbcDecrypt(bytes, key, previous) ==
  IF Len(bytes) < BlockSize THEN <<>>
  ELSE LET c == SubSeq(bytes, 1, BlockSize)
       IN BlockSub(DecryptBlock(c, key), previous)
            \o CbcDecrypt(SubSeq(bytes, BlockSize + 1, Len(bytes)), key, c)

DecryptFailure == [ok |-> FALSE, text |-> <<>>]

\* getEncryptionKey: the key is read, and checked, on every call
getEncryptionKey(e) == e.ENCRYPTION_KEY_LENGTH = 64

\* variant: the output of cipher.final is not appended
encryptNoFinal(text, iv, e) ==
  IF ~getEncryptionKey(e) THEN DecryptFailure
  ELSE [ok |-> TRUE,
        text |-> ToHex(iv) \o <<":">>
                   \o ToHex(CbcEncrypt(Utf8Encode(text), KeyBytes, iv))]

\* variant: the cipher is set up with an all-zero IV
encryptZeroIv(text, iv, e) ==
  IF ~getEncryptionKey(e) THEN DecryptFailure
  ELSE LET zero == [i \in 1..BlockSize |-> 0]
       IN [ok |-> TRUE,
           text |-> ToHex(zero) \o <<":">>
                      \o ToHex(CbcEncrypt(Pkcs7Pad(Utf8Encode(text)), KeyBytes, zero))]

\* encrypt, iv being what crypto.randomBytes returned
encrypt(text, iv, e) ==
  IF ~getEncryptionKey(e) THEN DecryptFailure
  ELSE [ok |-> TRUE,
        text |-> ToHex(iv) \o <<":">>
                   \o ToHex(CbcEncrypt(Pkcs7Pad(Utf8Encode(text)), KeyBytes, iv))]

decrypt(encryptedText, e) ==
  LET parts == Split(encryptedText, ":")
  IN IF Len(parts) # 2 THEN DecryptFailure
     ELSE LET iv == FromHex(parts[1])
              encrypted == parts[2]
              data == FromHex(encrypted)
              plain == Pkcs7Unpad(CbcDecrypt(data, KeyBytes, iv))
          IN IF ~getEncryptionKey(e) THEN DecryptFailure
             \* createDecipheriv: invalid initialization vector
             ELSE IF Len(iv) # BlockSize THEN DecryptFailure
             \* update: hex input of odd length is refused
             ELSE IF Len(encrypted) % 2 # 0 THEN DecryptFailure
             \* final: wrong final block length, bad decrypt
             ELSE IF data = <<>> \/ Len(data) % BlockSize # 0 THEN DecryptFailure
             ELSE IF ~plain.ok THEN DecryptFailure
             ELSE [ok |-> TRUE, text |-> Utf8Decode(plain.bytes)]

\* ----------------------------------------------------------------- errors
Err(kind, code) == [kind |-> kind, code |-> code]
NoError == Err("none", 0)


\* ------------------------------------------------------------ environment
SignerSecret == "app_secret"

\* an entry of process.env, or a query parameter: undefined / null, or a string
Undefined == [present |-> FALSE, value |-> ""]
Str(v) == [present |-> TRUE, value |-> v]

\* !x for such a value
Falsy(x) == ~x.present \/ x.value = ""

VerifyToken == "verify_token"

Env(secret, apiKey, keyLen) ==
  [FACEBOOK_APP_SECRET |-> secret, GEMINI_API_KEY |-> apiKey,
   ENCRYPTION_KEY_LENGTH |-> keyLen, WEBHOOK_VERIFY_TOKEN |-> Str(VerifyToken)]

\* the configured deployment, and each single misconfiguration of it
EnvSamples ==
  { Env(SignerSecret, "key", 64), Env("", "key", 64),
    Env(SignerSecret, "", 64), Env(SignerSecret, "key", 0) }

\* the page access token, and what the connect flow stored for it
PageToken == <<"a", "b">>
StoredIv == [i \in 1..BlockSize |-> 1]
EncryptedToken == encrypt(PageToken, StoredIv, Env(SignerSecret, "key", 64)).text
MalformedToken == <<"0", "1">>

NoRow == [exists |-> FALSE, user_id |-> "", page_access_token |-> <<>>]
Row(token) == [exists |-> TRUE, user_id |-> "user_1", page_access_token |-> token]

ConnectionTables ==
  { [p \in {KnownPage, UnknownPage} |-> IF p = KnownPage THEN Row(t) ELSE NoRow] :
      t \in {EncryptedToken, MalformedToken} }

OtherBody(body) == IF body = NotJsonBody THEN UserObjectBody ELSE NotJsonBody

\* headers a sender can put on a delivery of body
HeaderSamples(body) ==
  { NoHeader,
    Header(<<>>),
    Header(<<PrefixTok>> \o HmacSha256Hex(SignerSecret, body)),
    Header(<<JunkTok, PrefixTok>> \o HmacSha256Hex(SignerSecret, body)),
    Header(<<PrefixTok>> \o HmacSha256Hex(SignerSecret, OtherBody(body))) }

Product(name, price) == [name |-> name, price |-> price]
RedMug == Product(<<"Red", " ", "Mug">>, "$15.00")

CatalogSamples == { <<>>, <<RedMug>> }

\* answers of the generation service: plain, and with each signal
AnswerSamples ==
  { <<"Y", "e", "s">>,
    <<OutOfScopeSignal>>,
    <<AlternativeSignal, " ", "Red", " ", "Mug">> }
GenStatuses == {200, 500}

SendOutcome(net, status, json) == [net |-> net, status |-> status, json |-> json]
SendOutcomes ==
  { SendOutcome("ok", 200, TRUE), SendOutcome("ok", 200, FALSE),
    SendOutcome("ok", 302, FALSE), SendOutcome("ok", 401, FALSE),
    SendOutcome("ok", 403, FALSE),
    SendOutcome("ok", 429, FALSE), SendOutcome("ok", 500, FALSE),
    SendOutcome("error", 0, FALSE) }

NoVerifyCall ==
  [signature |-> NoHeader, body |-> NotJsonBody, appSecret |-> "", result |-> "none"]

NoParseCall ==
  [aiResponse |-> <<>>, products |-> <<>>, called |-> FALSE, result |-> ParseThrows]

NoCipherCall ==
  [stage |-> "none", text |-> <<>>, ivs |-> <<>>, outputs |-> <<>>,
   how |-> "none", input |-> <<>>, result |-> DecryptFailure]

NoGetCall ==
  [mode |-> Undefined, token |-> Undefined, challenge |-> Undefined,
   status |-> 0, body |-> ""]

\* the direct calls added below, not made
\* ------------------------------------------------------------ rate limiter
\* a missing Map entry; blockedUntil 0 stands for an absent field (both falsy)
NoEntry == [exists |-> FALSE, count |-> 0, resetTime |-> 0, blockedUntil |-> 0]
Entry(count, resetTime, blockedUntil) ==
  [exists |-> TRUE, count |-> count, resetTime |-> resetTime,
   blockedUntil |-> blockedUntil]

\* identifiers are strings, as sequences of tokens
ClientIps == {<<"ip_1">>, <<"ip_2">>}
Email == <<"owner@shop">>

\* `lockout:${identifier}`
lockoutKey(identifier) == <<"lockout:">> \o identifier

StoreKeys == ClientIps \cup {Email, lockoutKey(Email)}
EmptyStore == [k \in StoreKeys |-> NoEntry]

RateLimitConfig(maxRequests_, windowMs_, maxFailures_, lockoutDurationMs_) ==
  [maxRequests |-> maxRequests_, windowMs |-> windowMs_,
   maxFailures |-> maxFailures_, lockoutDurationMs |-> lockoutDurationMs_]

\* the clock advances in steps of five minutes
TickMs == 5 * 60 * 1000
StartTime == TickMs

NoResult == [called |-> FALSE, allowed |-> FALSE, remaining |-> 0, resetTime |-> 0,
             blocked |-> FALSE, blockedUntil |-> 0]
Result(allowed, remaining, resetTime, blocked, blockedUntil) ==
  [called |-> TRUE, allowed |-> allowed, remaining |-> remaining,
   resetTime |-> resetTime, blocked |-> blocked, blockedUntil |-> blockedUntil]

NoConfig == RateLimitConfig(0, 0, 0, 0)
NoLimiterCall ==
  [config |-> NoConfig, result |-> NoResult, granted |-> [ip \in ClientIps |-> 0]]
NoLogins ==
  [slots |-> <<>>, lockedAt |-> 0, acceptedDuring |-> FALSE,
   recordedDuring |-> FALSE]

LimiterIdle ==
  /\ rateLimitStore = EmptyStore
  /\ now = StartTime
  /\ limiter = NoLimiterCall
  /\ logins = NoLogins

ExtraIdle ==
  /\ getCall = NoGetCall
  /\ handlers = <<>>
  /\ LimiterIdle

\* ------------------------------------------------------------------ Init
Init ==
  /\ env \in EnvSamples
  /\ facebookPageConnection \in ConnectionTables
  /\ \E b \in BodySamples : \E h \in HeaderSamples(b) :
        request = [signature |-> h, body |-> b]
  /\ pc = "Received"
  /\ eventIndex = 1
  /\ messageLog = <<>>
  /\ responses = <<>>
  /\ evOutcome = <<>>
  /\ pageConnection = NoRow
  /\ products = <<>>
  /\ aiResponse = <<>>
  /\ chatbotError = NoError
  /\ genTimer = "none"
  /\ genElapsed = "within"
  /\ genStatus = 0
  /\ lateResponses = {}
  /\ attempt = 0
  /\ lastError = NoError
  /\ lookups = 0
  /\ catalogFetches = 0
  /\ genRequests = 0
  /\ decrypts = 0
  /\ sendRequests = <<>>
  /\ sendOutcomes = <<>>
  /\ backoffs = <<>>
  /\ verifyCall = NoVerifyCall
  /\ parseCall = NoParseCall
  /\ cipherCall = NoCipherCall
  /\ ExtraIdle

\* ------------------------------------------------------- handler: POST
Events == JSONParse(request.body).entry
CurrentEvent == Events[eventIndex]

\* return NextResponse.json({status: 'ok'}, {status})
Respond(status) ==
  /\ pc' = "Acknowledged"
  /\ responses' = Append(responses, status)

\* variant: the catch block of POST rethrows
PostCatchEscapes ==
  /\ pc' = "Escaped"
  /\ responses' = responses

\* the catch block of POST
PostCatch == Respond(200)

\* variant: POST without the signature check
PostDecisionUnverified(req, e) ==
  IF e.FACEBOOK_APP_SECRET = "" THEN "respond"
  ELSE IF ~JSONParse(req.body).ok THEN "catch"
  ELSE IF JSONParse(req.body).object # "page" THEN "respond"
  ELSE IF ~JSONParse(req.body).entryIterable THEN "catch"
  ELSE "process"

\* the checks of POST that precede the loop; "process" when all pass
PostDecision(req, e) ==
  IF e.FACEBOOK_APP_SECRET = "" THEN "respond"
  ELSE IF ~verifyWebhookSignature(req.signature, req.body, e.FACEBOOK_APP_SECRET)
       THEN "respond"
  ELSE IF ~JSONParse(req.body).ok THEN "catch"
  ELSE IF JSONParse(req.body).object # "page" THEN "respond"
  ELSE IF ~JSONParse(req.body).entryIterable THEN "catch"
  ELSE "process"

POST ==
  /\ pc = "Received"
  /\ LET d == PostDecision(request, env)
     IN CASE d = "respond" -> Respond(200)
          [] d = "catch" -> PostCatch
          [] OTHER -> pc' = "NextEvent" /\ responses' = responses
  /\ UNCHANGED <<env, facebookPageConnection, request, eventIndex, messageLog,
                 evOutcome, eventVars, genVars, sendVars, countVars, verifyCall, pureVars>>

\* the loops are exhausted: the return after them
PostReturn ==
  /\ pc = "NextEvent"
  /\ eventIndex > Len(Events)
  /\ Respond(200)
  /\ UNCHANGED <<env, facebookPageConnection, request, eventIndex, messageLog,
                 evOutcome, eventVars, genVars, sendVars, countVars, verifyCall, pureVars>>

\* ------------------------------------------- processMessagingEvent
\* a send request as the delivery service receives it
SendRequest(ev, token, recipient, text, n) ==
  [ev |-> ev, token |-> token, recipientId |-> recipient, text |-> text, attempt |-> n]

\* the event's processing returns (normally, or from its catch block)
FinishEvent(tag, err) ==
  /\ evOutcome' = Append(evOutcome, tag)
  /\ chatbotError' = err
  /\ eventIndex' = eventIndex + 1
  /\ pc' = "NextEvent"
  /\ responses' = responses

\* variant: the catch block tells the customer that something went wrong
ChatbotCatchApologises(err) ==
  /\ FinishEvent(IF err.kind = "timeout" THEN "timedOut" ELSE "failed", err)
  /\ sendRequests' = Append(sendRequests,
        SendRequest(eventIndex, <<>>, CurrentEvent.senderId, <<"S", "o", "r", "r", "y">>, 0))

\* the catch block of processMessagingEvent: the error is logged, nothing
\* is sent, the event's processing returns
ChatbotCatch(err) ==
  /\ FinishEvent(IF err.kind = "timeout" THEN "timedOut" ELSE "failed", err)
  /\ sendRequests' = sendRequests

\* an exception leaves processMessagingEvent: it reaches the catch of POST
AbortEvent ==
  /\ evOutcome' = Append(evOutcome, "aborted")
  /\ eventIndex' = eventIndex
  /\ PostCatch

\* variant: only the presence of a message is tested
HasMessageTextLoose(ev) == ev.hasMessage

\* event.message?.text is truthy
HasMessageText(ev) == ev.hasMessage /\ ev.text # <<>>

processMessagingEvent ==
  /\ pc = "NextEvent"
  /\ eventIndex <= Len(Events)
  /\ pageConnection' = NoRow
  /\ products' = <<>>
  /\ aiResponse' = <<>>
  /\ genElapsed' = "within"
  /\ genStatus' = 0
  /\ attempt' = 0
  /\ lastError' = NoError
  /\ catalogFetches' = 0
  /\ genRequests' = 0
  /\ decrypts' = 0
  /\ sendRequests' = <<>>
  /\ sendOutcomes' = <<>>
  /\ backoffs' = <<>>
  /\ IF ~HasMessageText(CurrentEvent)
       THEN /\ FinishEvent("skipped", NoError)
            /\ lookups' = 0
     ELSE IF ~CurrentEvent.hasSender
       THEN /\ AbortEvent
            /\ chatbotError' = NoError
            /\ lookups' = 0
     ELSE /\ lookups' = 1
          /\ pc' = "AwaitFindUnique"
          /\ chatbotError' = NoError
          /\ UNCHANGED <<evOutcome, eventIndex, responses>>
  /\ UNCHANGED <<env, facebookPageConnection, request, messageLog,
                 genTimer, lateResponses, verifyCall, pureVars>>

LoggedMessage(row, ev) ==
  [userId |-> row.user_id, pageId |-> ev.pageId,
   senderId |-> ev.senderId, messageText |-> ev.text]

\* variant: the log keeps its two newest entries only
PushCapped(array, item) ==
  IF Len(array) >= 2 THEN Append(Tail(array), item) ELSE Append(array, item)

\* Array.prototype.push
Push(array, item) == Append(array, item)

FindUniqueResolves ==
  /\ pc = "AwaitFindUnique"
  /\ LET row == facebookPageConnection[CurrentEvent.pageId]
     IN IF ~row.exists
          THEN /\ FinishEvent("unknownPage", NoError)
               /\ UNCHANGED <<pageConnection, messageLog, catalogFetches>>
        ELSE /\ pageConnection' = row
             /\ messageLog' = Push(messageLog, LoggedMessage(row, CurrentEvent))
             /\ catalogFetches' = catalogFetches + 1
             /\ pc' = "AwaitFindMany"
             /\ UNCHANGED <<evOutcome, chatbotError, eventIndex, responses>>
  /\ UNCHANGED <<env, facebookPageConnection, request, products, aiResponse,
                 genVars, sendVars, lookups, genRequests, decrypts, verifyCall, pureVars>>

FindUniqueRejects ==
  /\ pc = "AwaitFindUnique"
  /\ AbortEvent
  /\ UNCHANGED <<env, facebookPageConnection, request, messageLog, eventVars,
                 genVars, sendVars, countVars, verifyCall, pureVars>>


\* ------------------------------------------- generateChatbotResponse
\* the synchronous head of generateChatbotResponse: what it throws before
\* any network call, "none" when the fetch is issued
\* variant: only the empty string is refused
GenPrecheckNoTrim(e, customerMessage) ==
  IF e.GEMINI_API_KEY = "" THEN Err("config", 0)
  ELSE IF customerMessage = <<>> THEN Err("emptyInput", 0)
  ELSE NoError

GenPrecheck(e, customerMessage) ==
  IF e.GEMINI_API_KEY = "" THEN Err("config", 0)
  ELSE IF customerMessage = <<>> \/ Trim(customerMessage) = <<>> THEN Err("emptyInput", 0)
  ELSE NoError

\* the error the catch block of generateChatbotResponse throws for an abort
GenAbortError == Err("timeout", GEMINI_TIMEOUT_MS)

FindManyResolves(catalog) ==
  /\ pc = "AwaitFindMany"
  /\ products' = catalog
  /\ LET pre == GenPrecheck(env, CurrentEvent.text)
     IN IF pre # NoError
          THEN /\ ChatbotCatch(pre)
               /\ UNCHANGED <<genRequests, genTimer, genElapsed>>
        ELSE /\ genRequests' = genRequests + 1
             /\ genTimer' = "armed"
             /\ genElapsed' = "within"
             /\ pc' = "AwaitFetch"
             /\ UNCHANGED <<evOutcome, chatbotError, eventIndex, responses,
                             sendRequests>>
  /\ UNCHANGED <<env, facebookPageConnection, request, messageLog, pageConnection,
                 aiResponse, genStatus, lateResponses, attempt, lastError,
                 sendOutcomes, backoffs, lookups, catalogFetches, decrypts,
                 verifyCall, pureVars>>

FindManyRejects ==
  /\ pc = "AwaitFindMany"
  /\ ChatbotCatch(Err("database", 0))
  /\ UNCHANGED <<env, facebookPageConnection, request, messageLog, pageConnection,
                 products, aiResponse, genVars, attempt, lastError, sendOutcomes,
                 backoffs, countVars, verifyCall, pureVars>>

\* fetch resolves with the response's status line and headers
GenFetchResolves(status) ==
  /\ pc = "AwaitFetch"
  /\ genTimer' = "cleared"
  /\ genStatus' = status
  /\ pc' = IF status >= 200 /\ status <= 299 THEN "AwaitJson" ELSE "AwaitErrorText"
  /\ UNCHANGED <<env, facebookPageConnection, request, eventIndex, messageLog,
                 responses, evOutcome, eventVars, genElapsed, lateResponses,
                 sendVars, countVars, verifyCall, pureVars>>

\* fetch rejects with a network error: clearTimeout is not reached
GenFetchRejects ==
  /\ pc = "AwaitFetch"
  /\ ChatbotCatch(Err("genNetwork", 0))
  /\ UNCHANGED <<env, facebookPageConnection, request, messageLog, pageConnection,
                 products, aiResponse, genVars, attempt, lastError, sendOutcomes,
                 backoffs, countVars, verifyCall, pureVars>>

GenPending == {"AwaitFetch", "AwaitJson", "AwaitErrorText"}

\* GEMINI_TIMEOUT_MS have passed since the fetch was issued; the timer
\* callback runs if the timer is still set
GenDeadline ==
  /\ pc \in GenPending
  /\ genElapsed = "within"
  /\ genElapsed' = "past"
  /\ IF genTimer = "armed"
       THEN /\ genTimer' = "fired"
            /\ lateResponses' = lateResponses \cup {eventIndex}
            /\ ChatbotCatch(GenAbortError)
     ELSE UNCHANGED <<genTimer, lateResponses, pc, evOutcome, chatbotError,
                      eventIndex, responses, sendRequests>>
  /\ UNCHANGED <<env, facebookPageConnection, request, messageLog, pageConnection,
                 products, aiResponse, genStatus, attempt, lastError, sendOutcomes,
                 backoffs, countVars, verifyCall, pureVars>>

\* a timer left set by a rejected fetch fires: abort() of a settled request
StaleTimerFires ==
  /\ genTimer = "armed"
  /\ pc # "AwaitFetch"
  /\ genTimer' = "fired"
  /\ UNCHANGED <<handlerVars, eventVars, genElapsed, genStatus, lateResponses,
                 sendVars, countVars, verifyCall, pureVars>>

\* variant: the timeout only stops waiting, the request is not torn down,
\* and its answer is delivered when it arrives
GenLateResponseDelivers ==
  /\ \E i \in lateResponses :
       /\ lateResponses' = lateResponses \ {i}
       /\ sendRequests' = Append(sendRequests,
             SendRequest(i, PageToken, Events[i].senderId, <<"Y", "e", "s">>, 0))
  /\ UNCHANGED <<handlerVars, eventVars, genTimer, genElapsed, genStatus,
                 attempt, lastError, sendOutcomes, backoffs, countVars, verifyCall, pureVars>>

\* the generation service's answer to an aborted request arrives
GenLateResponse ==
  /\ \E i \in lateResponses : lateResponses' = lateResponses \ {i}
  /\ UNCHANGED <<handlerVars, eventVars, genTimer, genElapsed, genStatus,
                 sendVars, countVars, verifyCall, pureVars>>

\* ---------------------------------------------------------- sendMessage
\* variant: the connection is read again when the reply is delivered
DeliverReplyRereads(text) ==
  /\ aiResponse' = text
  /\ decrypts' = decrypts + 1
  /\ LET d == decrypt(facebookPageConnection[CurrentEvent.pageId].page_access_token, env)
     IN IF ~d.ok
          THEN /\ ChatbotCatch(Err("decrypt", 0))
               /\ UNCHANGED attempt
        ELSE /\ attempt' = 0
             /\ sendRequests' = Append(sendRequests,
                   SendRequest(eventIndex, d.text, CurrentEvent.senderId, text, 0))
             /\ pc' = "AwaitSendFetch"
             /\ UNCHANGED <<evOutcome, chatbotError, eventIndex, responses>>

\* variant: the result of decrypt is passed on without a failure ending
\* the event
DeliverReplyUnchecked(text) ==
  /\ aiResponse' = text
  /\ decrypts' = decrypts + 1
  /\ attempt' = 0
  /\ sendRequests' = Append(sendRequests,
        SendRequest(eventIndex, decrypt(pageConnection.page_access_token, env).text,
                    CurrentEvent.senderId, text, 0))
  /\ pc' = "AwaitSendFetch"
  /\ UNCHANGED <<evOutcome, chatbotError, eventIndex, responses>>

\* generateChatbotResponse returned text: decrypt, then sendMessage's first fetch
DeliverReply(text) ==
  /\ aiResponse' = text
  /\ decrypts' = decrypts + 1
  /\ LET d == decrypt(pageConnection.page_access_token, env)
     IN IF ~d.ok
          THEN /\ ChatbotCatch(Err("decrypt", 0))
               /\ UNCHANGED attempt
        ELSE /\ attempt' = 0
             /\ sendRequests' = Append(sendRequests,
                   SendRequest(eventIndex, d.text, CurrentEvent.senderId, text, 0))
             /\ pc' = "AwaitSendFetch"
             /\ UNCHANGED <<evOutcome, chatbotError, eventIndex, responses>>

\* response.json() resolves
GenJsonResolves(content, answer) ==
  /\ pc = "AwaitJson"
  /\ IF content = "noCandidates"
       THEN /\ ChatbotCatch(Err("noCandidates", 0))
            /\ UNCHANGED <<aiResponse, decrypts, attempt>>
     ELSE IF content = "noText"
       THEN /\ ChatbotCatch(Err("noText", 0))
            /\ UNCHANGED <<aiResponse, decrypts, attempt>>
     ELSE DeliverReply(answer)
  /\ UNCHANGED <<env, facebookPageConnection, request, messageLog, pageConnection,
                 products, genVars, lastError, sendOutcomes, backoffs, lookups,
                 catalogFetches, genRequests, verifyCall, pureVars>>

\* response.json() rejects: the body is no JSON
GenJsonRejects ==
  /\ pc = "AwaitJson"
  /\ ChatbotCatch(Err("genSyntax", 0))
  /\ UNCHANGED <<env, facebookPageConnection, request, messageLog, pageConnection,
                 products, aiResponse, genVars, attempt, lastError, sendOutcomes,
                 backoffs, countVars, verifyCall, pureVars>>

\* response.text() of a non-success response settles
GenErrorTextResolves ==
  /\ pc = "AwaitErrorText"
  /\ ChatbotCatch(Err("upstream", genStatus))
  /\ UNCHANGED <<env, facebookPageConnection, request, messageLog, pageConnection,
                 products, aiResponse, genVars, attempt, lastError, sendOutcomes,
                 backoffs, countVars, verifyCall, pureVars>>

\* the error the try block of sendMessage throws for a settled fetch
\* ("none" when it returns)
SendError(o) ==
  IF o.net = "error" THEN Err("sendNetwork", 0)
  ELSE IF ~(o.status >= 200 /\ o.status <= 299) THEN Err("http", o.status)
  ELSE IF ~o.json THEN Err("sendSyntax", 0)
  ELSE NoError

\* variant: no status is treated as permanent
IsPermanentNever(error) == FALSE

\* variant: a rate-limited answer is left to the retry
IsPermanentExceptRateLimit(error) ==
  error.kind = "http" /\ error.code >= 400 /\ error.code < 500 /\ error.code # 429

\* (error as any).status >= 400 && (error as any).status < 500
IsPermanent(error) == error.kind = "http" /\ error.code >= 400 /\ error.code < 500

RECURSIVE Pow2(_)
Pow2(n) == IF n = 0 THEN 1 ELSE 2 * Pow2(n - 1)

\* variant: the wait grows linearly from nothing
backoffMsLinear(n) == n * BackoffBaseMs

\* Math.pow(2, attempt) * 1000
backoffMs(n) == Pow2(n) * BackoffBaseMs

\* variant: the retry is scheduled on a timer that sendMessage does not wait
\* for, so the event's processing returns while the retry is outstanding
SendFetchSettlesDetached(o) ==
  /\ pc = "AwaitSendFetch"
  /\ sendOutcomes' = Append(sendOutcomes, o)
  /\ LET error == SendError(o)
     IN IF error = NoError
          THEN /\ FinishEvent("replied", NoError)
               /\ UNCHANGED <<lastError, backoffs, sendRequests>>
        ELSE /\ lastError' = error
             /\ IF IsPermanent(error) \/ attempt >= maxRetries
                  THEN /\ ChatbotCatch(error)
                       /\ UNCHANGED backoffs
                ELSE /\ backoffs' = Append(backoffs, backoffMs(attempt))
                     /\ FinishEvent("replied", NoError)
                     /\ UNCHANGED sendRequests
  /\ UNCHANGED <<env, facebookPageConnection, request, messageLog, pageConnection,
                 products, aiResponse, genVars, attempt, countVars, verifyCall, pureVars>>

SendFetchSettles(o) ==
  /\ pc = "AwaitSendFetch"
  /\ sendOutcomes' = Append(sendOutcomes, o)
  /\ LET error == SendError(o)
     IN IF error = NoError
          THEN /\ FinishEvent("replied", NoError)
               /\ UNCHANGED <<lastError, backoffs, sendRequests>>
        ELSE /\ lastError' = error
             /\ IF IsPermanent(error)
                  THEN /\ ChatbotCatch(error)
                       /\ UNCHANGED backoffs
                ELSE IF attempt < maxRetries
                  THEN /\ backoffs' = Append(backoffs, backoffMs(attempt))
                       /\ pc' = "Backoff"
                       /\ UNCHANGED <<evOutcome, chatbotError, eventIndex, responses,
                                      sendRequests>>
                ELSE /\ ChatbotCatch(error)
                     /\ UNCHANGED backoffs
  /\ UNCHANGED <<env, facebookPageConnection, request, messageLog, pageConnection,
                 products, aiResponse, genVars, attempt, countVars, verifyCall, pureVars>>

\* the backoff timer fires: attempt++ and the next fetch
BackoffElapses ==
  /\ pc = "Backoff"
  /\ attempt' = attempt + 1
  /\ sendRequests' = Append(sendRequests,
        SendRequest(eventIndex, sendRequests[1].token, CurrentEvent.senderId,
                    aiResponse, attempt + 1))
  /\ pc' = "AwaitSendFetch"
  /\ UNCHANGED <<env, facebookPageConnection, request, eventIndex, messageLog,
                 responses, evOutcome, eventVars, genVars, lastError, sendOutcomes,
                 backoffs, countVars, verifyCall, pureVars>>

\* ------------------------------------------------------------------ Next
Next ==
  \/ POST
  \/ PostReturn
  \/ processMessagingEvent
  \/ FindUniqueResolves
  \/ FindUniqueRejects
  \/ \E c \in CatalogSamples : FindManyResolves(c)
  \/ FindManyRejects
  \/ \E st \in GenStatuses : GenFetchResolves(st)
  \/ GenFetchRejects
  \/ GenDeadline
  \/ StaleTimerFires
  \/ GenLateResponse
  \/ \E c \in {"text", "noCandidates", "noText"} : \E a \in AnswerSamples :
        GenJsonResolves(c, a)
  \/ GenJsonRejects
  \/ GenErrorTextResolves
  \/ \E o \in SendOutcomes : SendFetchSettles(o)
  \/ BackoffElapses

Spec == Init /\ [][Next]_vars

TypeOK ==
  /\ pc \in {"Received", "NextEvent", "AwaitFindUnique", "AwaitFindMany",
             "AwaitFetch", "AwaitJson", "AwaitErrorText", "AwaitSendFetch",
             "Backoff", "Acknowledged", "Escaped"}
  /\ genTimer \in {"none", "armed", "cleared", "fired"}
  /\ genElapsed \in {"within", "past"}
  /\ attempt \in 0..maxRetries

\* ------------------------------------------------------------------------
\* The handler under the scheduling the runtime gives it: every step of the
\* handler, every database call, every delivery call, the backoff timer and
\* the passing of time are eventually taken; the generation service is not
\* obliged to answer.
Progress ==
  \/ POST
  \/ PostReturn
  \/ processMessagingEvent
  \/ FindUniqueResolves
  \/ FindUniqueRejects
  \/ \E c \in CatalogSamples : FindManyResolves(c)
  \/ FindManyRejects
  \/ GenDeadline
  \/ StaleTimerFires
  \/ \E o \in SendOutcomes : SendFetchSettles(o)
  \/ BackoffElapses

FairSpec == Init /\ [][Next]_vars /\ WF_vars(Progress)

\* ------------------------------------------------------------------------
\* Direct calls of verifyWebhookSignature on bounded inputs.
VerifyBodies == {NotJsonBody, UserObjectBody}

VerifyTokens ==
  {PrefixTok, JunkTok}
    \cup {HmacSha256Hex(SignerSecret, b)[k] : b \in VerifyBodies, k \in 1..2}
    \cup {HmacSha256Hex("wrong_secret", NotJsonBody)[k] : k \in 1..2}

VerifyHeaders == {NoHeader} \cup {Header(t) : t \in SeqsUpTo(VerifyTokens, MaxHeaderLen)}

InitVerify ==
  /\ env = Env(SignerSecret, "key", 64)
  /\ facebookPageConnection =
       [p \in {KnownPage, UnknownPage} |-> IF p = KnownPage THEN Row(EncryptedToken) ELSE NoRow]
  /\ request = [signature |-> NoHeader, body |-> NotJsonBody]
  /\ pc = "Received"
  /\ eventIndex = 1
  /\ messageLog = <<>>
  /\ responses = <<>>
  /\ evOutcome = <<>>
  /\ pageConnection = NoRow
  /\ products = <<>>
  /\ aiResponse = <<>>
  /\ chatbotError = NoError
  /\ genTimer = "none"
  /\ genElapsed = "within"
  /\ genStatus = 0
  /\ lateResponses = {}
  /\ attempt = 0
  /\ lastError = NoError
  /\ lookups = 0
  /\ catalogFetches = 0
  /\ genRequests = 0
  /\ decrypts = 0
  /\ sendRequests = <<>>
  /\ sendOutcomes = <<>>
  /\ backoffs = <<>>
  /\ \E h \in VerifyHeaders : \E b \in VerifyBodies :
        verifyCall = [signature |-> h, body |-> b, appSecret |-> SignerSecret,
                      result |-> "none"]
  /\ parseCall = NoParseCall
  /\ cipherCall = NoCipherCall
  /\ ExtraIdle

VerifyCall ==
  /\ verifyCall.result = "none"
  /\ verifyCall' = [verifyCall EXCEPT !.result =
        IF verifyWebhookSignature(verifyCall.signature, verifyCall.body,
                                  verifyCall.appSecret)
        THEN "true" ELSE "false"]
  /\ UNCHANGED <<handlerVars, eventVars, genVars, sendVars, countVars, pureVars>>

NextVerify == VerifyCall

SpecVerify == InitVerify /\ [][NextVerify]_vars

\* ------------------------------------------------------------------------
\* the webhook handler at rest, as the direct calls below leave it
HandlerIdle ==
  /\ env = Env(SignerSecret, "key", 64)
  /\ facebookPageConnection =
       [p \in {KnownPage, UnknownPage} |-> IF p = KnownPage THEN Row(EncryptedToken) ELSE NoRow]
  /\ request = [signature |-> NoHeader, body |-> NotJsonBody]
  /\ pc = "Received"
  /\ eventIndex = 1
  /\ messageLog = <<>>
  /\ responses = <<>>
  /\ evOutcome = <<>>
  /\ pageConnection = NoRow
  /\ products = <<>>
  /\ aiResponse = <<>>
  /\ chatbotError = NoError
  /\ genTimer = "none"
  /\ genElapsed = "within"
  /\ genStatus = 0
  /\ lateResponses = {}
  /\ attempt = 0
  /\ lastError = NoError
  /\ lookups = 0
  /\ catalogFetches = 0
  /\ genRequests = 0
  /\ decrypts = 0
  /\ sendRequests = <<>>
  /\ sendOutcomes = <<>>
  /\ backoffs = <<>>

\* ------------------------------------------------------------------------
\* Direct calls of parseGeminiResponse on bounded answers and catalogs.
ParseChars ==
  {OutOfScopeSignal, AlternativeSignal, "out_of_scope", " ", "\n", "Red", "Mug"}

\* two products share a name
ParseProducts ==
  {RedMug, Product(<<"Mug">>, "$12.00"), Product(<<"Mug">>, "$20.00")}

InitParse ==
  /\ HandlerIdle
  /\ verifyCall = NoVerifyCall
  /\ cipherCall = NoCipherCall
  /\ ExtraIdle
  /\ \E a \in SeqsUpTo(ParseChars, MaxAnswerLen) :
        \E c \in SeqsUpTo(ParseProducts, MaxCatalogLen) :
          parseCall = [aiResponse |-> a, products |-> c, called |-> FALSE,
                       result |-> ParseThrows]

ParseCall ==
  /\ ~parseCall.called
  /\ parseCall' = [parseCall EXCEPT
        !.called = TRUE,
        !.result = parseGeminiResponse(parseCall.aiResponse, parseCall.products)]
  /\ UNCHANGED <<handlerVars, eventVars, genVars, sendVars, countVars, verifyCall,
                 cipherCall, extraVars>>

NextParse == ParseCall

SpecParse == InitParse /\ [][NextParse]_vars

\* ------------------------------------------------------------------------
\* Direct calls of encrypt and decrypt under a well-formed key: encrypt is
\* called on a plaintext, and then either encrypt once more on the same
\* plaintext, or decrypt on the output or on a damaged copy of it; or
\* decrypt is called on an arbitrary short string.
PlainChars == {Alphabet[k] : k \in 1..ByteMod}
IVs == [1..BlockSize -> ByteValues]

\* characters of a stored credential: hex digits, the separator, another one
CipherChars == {HexDigits[d] : d \in 1..HexBase} \cup {":", "z"}
DamageChars == {HexDigits[1], ":", "z"}

InsertAt(s, i, c) == SubSeq(s, 1, i - 1) \o <<c>> \o SubSeq(s, i, Len(s))
DeleteAt(s, i) == SubSeq(s, 1, i - 1) \o SubSeq(s, i + 1, Len(s))
ReplaceAt(s, i, c) == [s EXCEPT ![i] = c]

\* the strings one edit away from s
Damaged(s) ==
  ( {InsertAt(s, i, c) : i \in 1..(Len(s) + 1), c \in DamageChars}
    \cup {DeleteAt(s, i) : i \in 1..Len(s)}
    \cup {ReplaceAt(s, i, c) : i \in 1..Len(s), c \in DamageChars} ) \ {s}

InitCipher ==
  /\ HandlerIdle
  /\ verifyCall = NoVerifyCall
  /\ parseCall = NoParseCall
  /\ ExtraIdle
  /\ \E x \in SeqsUpTo(PlainChars, MaxPlainLen) :
        cipherCall = [NoCipherCall EXCEPT !.stage = "start", !.text = x]

\* encrypt(text); crypto.randomBytes is taken as an ideal source, which
\* does not return a value it has returned before
EncryptCall(iv) ==
  /\ cipherCall.stage \in {"start", "encrypted"}
  /\ \A k \in 1..Len(cipherCall.ivs) : cipherCall.ivs[k] # iv
  /\ LET out == encrypt(cipherCall.text, iv, env)
     IN /\ out.ok
        /\ cipherCall' = [cipherCall EXCEPT
              !.stage = IF cipherCall.stage = "start" THEN "encrypted"
                        ELSE "encryptedTwice",
              !.ivs = Append(cipherCall.ivs, iv),
              !.outputs = Append(cipherCall.outputs, out.text)]
  /\ UNCHANGED <<handlerVars, eventVars, genVars, sendVars, countVars, verifyCall,
                 parseCall, extraVars>>

DecryptOf(how, input) ==
  /\ cipherCall' = [cipherCall EXCEPT
        !.stage = "decrypted", !.how = how, !.input = input,
        !.result = decrypt(input, env)]
  /\ UNCHANGED <<handlerVars, eventVars, genVars, sendVars, countVars, verifyCall,
                 parseCall, extraVars>>

\* decrypt(encrypt(text))
DecryptCall ==
  /\ cipherCall.stage = "encrypted"
  /\ DecryptOf("roundTrip", cipherCall.outputs[1])

DecryptDamaged ==
  /\ cipherCall.stage = "encrypted"
  /\ \E s \in Damaged(cipherCall.outputs[1]) : DecryptOf("damaged", s)

DecryptArbitrary ==
  /\ cipherCall.stage = "start"
  /\ cipherCall.text = <<>>
  /\ \E s \in SeqsUpTo(CipherChars, MaxGarbageLen) : DecryptOf("arbitrary", s)

NextCipher ==
  \/ \E iv \in IVs : EncryptCall(iv)
  \/ DecryptCall
  \/ DecryptDamaged
  \/ DecryptArbitrary

SpecCipher == InitCipher /\ [][NextCipher]_vars

\* ------------------------------------------------------------------------
\* One webhook verification request, under each state of the configured
\* verify token.
GetParams(values) == {Undefined} \cup {Str(v) : v \in values}

\* variant: the configuration is checked before the parameters
GETConfigFirst(mode, token, challenge, e) ==
  LET expectedToken == e.WEBHOOK_VERIFY_TOKEN
  IN IF Falsy(expectedToken)
       THEN [status |-> 500, body |-> "Server configuration error"]
     ELSE IF Falsy(mode) \/ Falsy(token) \/ Falsy(challenge)
       THEN [status |-> 403, body |-> "Missing parameters"]
     ELSE IF mode.value # "subscribe"
       THEN [status |-> 403, body |-> "Invalid mode"]
     ELSE IF token.value # expectedToken.value
       THEN [status |-> 403, body |-> "Invalid verify token"]
     ELSE [status |-> 200, body |-> challenge.value]

\* GET: the response for the three query parameters
GET(mode, token, challenge, e) ==
  LET expectedToken == e.WEBHOOK_VERIFY_TOKEN
  IN IF Falsy(mode) \/ Falsy(token) \/ Falsy(challenge)
       THEN [status |-> 403, body |-> "Missing parameters"]
     ELSE IF mode.value # "subscribe"
       THEN [status |-> 403, body |-> "Invalid mode"]
     ELSE IF Falsy(expectedToken)
       THEN [status |-> 500, body |-> "Server configuration error"]
     ELSE IF token.value # expectedToken.value
       THEN [status |-> 403, body |-> "Invalid verify token"]
     ELSE [status |-> 200, body |-> challenge.value]

InitGet ==
  /\ HandlerIdle
  /\ verifyCall = NoVerifyCall
  /\ parseCall = NoParseCall
  /\ cipherCall = NoCipherCall
  /\ handlers = <<>>
  /\ LimiterIdle
  /\ \E m \in GetParams({"", "subscribe", "unsubscribe"}) :
       \E t \in GetParams({"", VerifyToken, "wrong_token"}) :
         \E c \in GetParams({"", "challenge_1", "challenge_2"}) :
           getCall = [NoGetCall EXCEPT !.mode = m, !.token = t, !.challenge = c]

\* process.env.WEBHOOK_VERIFY_TOKEN is set, emptied or removed
SetVerifyToken(v) ==
  /\ getCall.status = 0
  /\ env.WEBHOOK_VERIFY_TOKEN # v
  /\ env' = [env EXCEPT !.WEBHOOK_VERIFY_TOKEN = v]
  /\ UNCHANGED <<facebookPageConnection, request, pc, eventIndex, messageLog,
                 responses, evOutcome, eventVars, genVars, sendVars, countVars,
                 verifyCall, pureVars>>

GetCall ==
  /\ getCall.status = 0
  /\ LET r == GET(getCall.mode, getCall.token, getCall.challenge, env)
     IN getCall' = [getCall EXCEPT !.status = r.status, !.body = r.body]
  /\ UNCHANGED <<handlerVars, eventVars, genVars, sendVars, countVars, verifyCall,
                 parseCall, cipherCall, handlers, limiterVars>>

NextGet ==
  \/ \E v \in GetParams({"", VerifyToken}) : SetVerifyToken(v)
  \/ GetCall

SpecGet == InitGet /\ [][NextGet]_vars

\* ------------------------------------------------------------------------
\* Several deliveries handled at the same time: the invocations of POST
\* take turns at their awaits and share messageLog.  Of each event only the
\* steps up to the log append are told apart; what follows it (catalog,
\* generation, delivery) is one step, since it does not touch the log.
LogEventCodes == {1, 2}

\* the event of code k as delivery h carries it
LogSenders == <<"psid_1", "psid_2", "psid_3", "psid_4">>

LogEvent(h, k) == [EventOfCode(k) EXCEPT !.senderId = LogSenders[h]]

Handler(codes) == [events |-> codes, index |-> 1, pc |-> "Received"]

InitLog ==
  /\ HandlerIdle
  /\ verifyCall = NoVerifyCall
  /\ parseCall = NoParseCall
  /\ cipherCall = NoCipherCall
  /\ getCall = NoGetCall
  /\ LimiterIdle
  /\ handlers \in [1..NumDeliveries -> {Handler(c) : c \in SeqsUpTo(LogEventCodes, MaxEvents)}]

LogUnchanged ==
  UNCHANGED <<env, facebookPageConnection, request, pc, eventIndex, responses,
              evOutcome, eventVars, genVars, sendVars, countVars, verifyCall,
              parseCall, cipherCall, getCall, limiterVars>>

\* POST of delivery h has verified and parsed its request
LogPost(h) ==
  /\ handlers[h].pc = "Received"
  /\ handlers' = [handlers EXCEPT ![h].pc = "NextEvent"]
  /\ UNCHANGED messageLog
  /\ LogUnchanged

\* the loop of delivery h: its next event's lookup is issued, or it returns
LogNextEvent(h) ==
  /\ handlers[h].pc = "NextEvent"
  /\ handlers' = [handlers EXCEPT ![h].pc =
        IF handlers[h].index <= Len(handlers[h].events)
        THEN "AwaitFindUnique" ELSE "Acknowledged"]
  /\ UNCHANGED messageLog
  /\ LogUnchanged

\* findUnique of delivery h resolves; for a known page the entry is pushed
LogFindUniqueResolves(h) ==
  /\ handlers[h].pc = "AwaitFindUnique"
  /\ LET ev == LogEvent(h, handlers[h].events[handlers[h].index])
         row == facebookPageConnection[ev.pageId]
     IN IF ~row.exists
          THEN /\ handlers' = [handlers EXCEPT ![h].pc = "NextEvent",
                                               ![h].index = @ + 1]
               /\ UNCHANGED messageLog
        ELSE /\ messageLog' = Push(messageLog, LoggedMessage(row, ev))
             /\ handlers' = [handlers EXCEPT ![h].pc = "AwaitReply"]
  /\ LogUnchanged

\* the rest of the event's processing of delivery h ends, however it ends
LogReplySettles(h) ==
  /\ handlers[h].pc = "AwaitReply"
  /\ handlers' = [handlers EXCEPT ![h].pc = "NextEvent", ![h].index = @ + 1]
  /\ UNCHANGED messageLog
  /\ LogUnchanged

NextLog ==
  \E h \in 1..NumDeliveries :
    \/ LogPost(h)
    \/ LogNextEvent(h)
    \/ LogFindUniqueResolves(h)
    \/ LogReplySettles(h)

SpecLog == InitLog /\ [][NextLog]_vars

\* ========================================================================
\* Properties
\* ========================================================================

\* C1: every response POST returns has status 200, no exception leaves POST,
\* and a handled request has been answered with exactly that 200.
C1_AlwaysStatus200 ==
  /\ pc # "Escaped"
  /\ \A i \in 1..Len(responses) : responses[i] = 200
  /\ pc = "Acknowledged" => responses = <<200>>

\* a delivery whose channel lookup failed has been answered
C1_Witness ==
  /\ pc = "Acknowledged"
  /\ responses = <<200>>
  /\ evOutcome # <<>>
  /\ evOutcome[Len(evOutcome)] = "aborted"
  /\ lookups = 1

\* C2: every inbound POST is eventually acknowledged, and never more than
\* once, given that database and delivery calls settle; a slow generation
\* call does not prevent it.
C2_EventuallyAcknowledgedOnce ==
  /\ <>(pc = "Acknowledged" /\ responses = <<200>>)
  /\ [](Len(responses) <= 1)

SignatureRejected ==
  /\ env.FACEBOOK_APP_SECRET # ""
  /\ ~verifyWebhookSignature(request.signature, request.body, env.FACEBOOK_APP_SECRET)

NoSideEffects ==
  /\ messageLog = <<>>
  /\ evOutcome = <<>>
  /\ lookups = 0
  /\ catalogFetches = 0
  /\ genRequests = 0
  /\ decrypts = 0
  /\ sendRequests = <<>>
  /\ lateResponses = {}

ExactHeader(body, appSecret) == Header(<<PrefixTok>> \o HmacSha256Hex(appSecret, body))

\* C4: verifyWebhookSignature returns true exactly for the header that is
\* "sha256=" followed by the hex HMAC-SHA256 of the body under the secret,
\* and false (never throwing) for every other header and body.
C4_TrueOnlyForExactHeader ==
  verifyCall.result # "none" =>
    /\ verifyCall.result \in {"true", "false"}
    /\ verifyCall.result = "true" <=>
         verifyCall.signature = ExactHeader(verifyCall.body, verifyCall.appSecret)

\* C5: a failure while processing one event is contained to that event:
\* every event of an accepted delivery has been processed when the delivery
\* is acknowledged.
C5_FailureContainedToEvent ==
  ( /\ pc = "Acknowledged"
    /\ PostDecision(request, env) = "process"
    /\ \A i \in 1..Len(Events) : Events[i].hasSender )
  => /\ Len(evOutcome) = Len(Events)
     /\ \A i \in 1..Len(evOutcome) : evOutcome[i] # "aborted"

GenFailureKinds ==
  {"config", "emptyInput", "genNetwork", "timeout", "upstream",
   "noCandidates", "noText", "genSyntax"}

\* C6: when the generation call of an event fails, no send request is made
\* for that event (no reply and no error message), and the delivery is
\* still acknowledged with 200.
C6_GenerationFailureIsSilent ==
  /\ chatbotError.kind \in GenFailureKinds =>
       (sendRequests = <<>> /\ sendOutcomes = <<>>)
  /\ pc = "Acknowledged" => responses = <<200>>

\* a delivery whose last event's generation answered 500 has been acknowledged
C6_Witness ==
  /\ pc = "Acknowledged"
  /\ responses = <<200>>
  /\ chatbotError = Err("upstream", 500)
  /\ genRequests = 1
  /\ sendRequests = <<>>

\* C7: a generation call that is not complete GEMINI_TIMEOUT_MS after it
\* was issued has been cancelled and has failed with the timeout error
\* carrying that threshold, whatever phase it is in.
C7_GenerationBoundedByTimeout ==
  genElapsed = "past" =>
    /\ pc \notin GenPending
    /\ chatbotError = Err("timeout", GEMINI_TIMEOUT_MS)

\* C8: no send request is ever made for an event whose generation call was
\* cancelled by the timeout, also after the late answer has arrived.
C8_CancelledGenerationNeverDelivers ==
  \A k \in 1..Len(sendRequests) :
    LET e == sendRequests[k].ev
    IN e > Len(evOutcome) \/ evOutcome[e] # "timedOut"

\* the answer to a cancelled generation call has arrived, and the delivery
\* is acknowledged
C8_Witness ==
  /\ pc = "Acknowledged"
  /\ \E i \in 1..Len(evOutcome) : evOutcome[i] = "timedOut" /\ i \notin lateResponses
  /\ lateResponses = {}
  /\ chatbotError = GenAbortError
  /\ sendRequests = <<>>

Is4xx(o) == o.net = "ok" /\ o.status >= 400 /\ o.status <= 499

\* C9: a 4xx answer to a send request ends sendMessage at once with an error
\* carrying that status; no send request follows it, and the delivery is
\* still acknowledged with 200.
C9_PermanentFailureNotRetried ==
  /\ \A k \in 1..Len(sendOutcomes) :
       Is4xx(sendOutcomes[k]) =>
         /\ k = Len(sendOutcomes)
         /\ Len(sendRequests) = k
         /\ pc \notin {"AwaitSendFetch", "Backoff"}
         /\ chatbotError = Err("http", sendOutcomes[k].status)
  /\ pc = "Acknowledged" => responses = <<200>>

\* a first send attempt answered 403, acknowledged after one send request
C9_Witness ==
  /\ pc = "Acknowledged"
  /\ responses = <<200>>
  /\ sendOutcomes = <<SendOutcome("ok", 403, FALSE)>>
  /\ Len(sendRequests) = 1
  /\ chatbotError = Err("http", 403)

IsTransientFailure(o) ==
  \/ o.net = "error"
  \/ o.net = "ok" /\ ~(o.status >= 200 /\ o.status <= 299) /\ ~Is4xx(o)

Is2xx(o) == o.net = "ok" /\ o.status >= 200 /\ o.status <= 299

SendFinished == pc \notin {"AwaitSendFetch", "Backoff"}

\* C10: sendMessage makes at most two send requests, the second only after a
\* transient failure of the first; it returns when the retry gets a 2xx, and
\* fails with the last attempt's error when the retry fails too.
C10_AtMostOneRetry ==
  /\ Len(sendRequests) <= 2
  /\ Len(sendRequests) = 2 => IsTransientFailure(sendOutcomes[1])
  /\ (SendFinished /\ Len(sendOutcomes) = 2) =>
       IF Is2xx(sendOutcomes[2]) THEN chatbotError = NoError
       ELSE chatbotError = SendError(sendOutcomes[2])

HasStatus(o, statuses) == o.net = "ok" /\ o.status \in statuses

C12_BackoffBeforeRetry ==
  /\ \A k \in 1..Len(backoffs) :
       /\ backoffs[k] = Pow2(k - 1) * 1000
       /\ k <= maxRetries
       /\ k <= Len(sendOutcomes)
       /\ ~Is4xx(sendOutcomes[k])
  /\ pc = "Backoff" =>
       (Len(sendRequests) = Len(backoffs) /\ Len(sendOutcomes) = Len(backoffs))
  /\ (pc # "Backoff" /\ sendRequests # <<>>) =>
       Len(sendRequests) = Len(backoffs) + 1
  /\ Len(sendRequests) = 2 => backoffs = <<1000>>

\* a first attempt answered 500 was retried after one wait of 1000 ms, and
\* the retry succeeded
C12_Witness ==
  /\ sendOutcomes = <<SendOutcome("ok", 500, FALSE), SendOutcome("ok", 200, TRUE)>>
  /\ Len(sendRequests) = 2
  /\ sendRequests[2].attempt = 1
  /\ backoffs = <<1000>>
  /\ evOutcome # <<>>
  /\ evOutcome[Len(evOutcome)] = "replied"

\* C13: the text of every send request is the text parseGeminiResponse gives
\* for the event's generated answer and catalog, never the unclassified
\* answer: the fixed redirect message for an OUT_OF_SCOPE answer, the
\* alternative template for ALTERNATIVE: followed by a catalog name.
C13_DeliveredTextIsClassified ==
  \A k \in 1..Len(sendRequests) :
    LET classified == parseGeminiResponse(aiResponse, products)
    IN /\ ~classified.threw
       /\ sendRequests[k].text = classified.text

CatalogNames(catalog) == {catalog[i].name : i \in 1..Len(catalog)}

\* C14: the result of parseGeminiResponse carries suggestedProduct exactly
\* when its type is alternative, and suggestedProduct is then the name of a
\* product of the catalog passed in.
C14_SuggestedProductIffAlternative ==
  (parseCall.called /\ ~parseCall.result.threw) =>
    /\ parseCall.result.hasSuggestedProduct <=> parseCall.result.type = "alternative"
    /\ parseCall.result.hasSuggestedProduct =>
         parseCall.result.suggestedProduct \in CatalogNames(parseCall.products)

\* "ALTERNATIVE:Red Mug" classified against a catalog of two products
C14_Witness ==
  /\ parseCall.called
  /\ parseCall.aiResponse = <<AlternativeSignal, "Red", " ", "Mug">>
  /\ Len(parseCall.products) = 2
  /\ parseCall.result.type = "alternative"
  /\ parseCall.result.hasSuggestedProduct
  /\ parseCall.result.suggestedProduct = <<"Red", " ", "Mug">>

Trimmed == Trim(parseCall.aiResponse)

\* C15: a signal counts only as the first thing of the trimmed answer, in
\* its exact case: an answer starting with OUT_OF_SCOPE gives out-of-scope
\* with the fixed redirect text whatever the catalog; an answer starting with
\* neither signal, also when a signal follows other text, gives normal with
\* the trimmed answer verbatim.
C15_SignalsOnlyAtStart ==
  (parseCall.called /\ Trimmed # <<>>) =>
    /\ ~parseCall.result.threw
    /\ Trimmed[1] = OutOfScopeSignal =>
         /\ parseCall.result.type = "out-of-scope"
         /\ parseCall.result.text = getOutOfScopeMessage
    /\ parseCall.result.type = "out-of-scope" => Trimmed[1] = OutOfScopeSignal
    /\ parseCall.result.type = "alternative" => Trimmed[1] = AlternativeSignal
    /\ Trimmed[1] \notin {OutOfScopeSignal, AlternativeSignal} =>
         /\ parseCall.result.type = "normal"
         /\ parseCall.result.text = Trimmed

\* an answer with leading white space and OUT_OF_SCOPE after a word was
\* classified normal against a non-empty catalog
C15_Witness ==
  /\ parseCall.called
  /\ parseCall.aiResponse = <<" ", "Red", " ", OutOfScopeSignal>>
  /\ parseCall.products # <<>>
  /\ parseCall.result.type = "normal"
  /\ parseCall.result.text = <<"Red", " ", OutOfScopeSignal>>

ExpectedAlternative(name) ==
  IF name \in CatalogNames(parseCall.products)
    THEN /\ parseCall.result.type = "alternative"
         /\ \E i \in 1..Len(parseCall.products) :
               /\ parseCall.products[i].name = name
               /\ parseCall.result.text =
                    getAlternativeSuggestionMessage(parseCall.products[i])
  ELSE /\ parseCall.result.type = "normal"
       /\ parseCall.result.text = Trimmed

\* C16 (as claimed): for a trimmed answer starting with ALTERNATIVE: the
\* name looked up is the whole remainder after the prefix, trimmed, compared
\* by equality; a match gives the alternative template, no match gives
\* normal with the whole trimmed answer.
C16_NameIsWholeRemainder ==
  (parseCall.called /\ Trimmed # <<>> /\ Trimmed[1] = AlternativeSignal) =>
    ExpectedAlternative(Trim(Tail(Trimmed)))

\* C16 (amended): the name looked up is the first line of the remainder
\* after the prefix and the white space following it, trimmed, compared by
\* equality; a match gives the alternative template, an empty or unmatched
\* name gives normal with the whole trimmed answer.
C16_NameIsFirstLineOfRemainder ==
  (parseCall.called /\ Trimmed # <<>> /\ Trimmed[1] = AlternativeSignal) =>
    ExpectedAlternative(Trim(FirstLine(TrimStart(Tail(Trimmed)))))

\* "ALTERNATIVE:Mug", a line break and more text was classified as the
\* alternative Mug
C16_Witness ==
  /\ parseCall.called
  /\ parseCall.aiResponse = <<AlternativeSignal, "Mug", "\n", "Red">>
  /\ parseCall.result.type = "alternative"
  /\ parseCall.result.suggestedProduct = <<"Mug">>

\* C17: under a well-formed key, decrypt(encrypt(x)) = x for every plaintext
\* x, the empty string included.
C17_RoundTrip ==
  (cipherCall.stage = "decrypted" /\ cipherCall.how = "roundTrip") =>
    /\ cipherCall.result.ok
    /\ cipherCall.result.text = cipherCall.text

\* the empty string has been encrypted and decrypted again
C17_Witness ==
  /\ cipherCall.stage = "decrypted"
  /\ cipherCall.how = "roundTrip"
  /\ cipherCall.text = <<>>
  /\ cipherCall.input = cipherCall.outputs[1]
  /\ cipherCall.result = [ok |-> TRUE, text |-> <<>>]

Colons(s) == Cardinality({i \in 1..Len(s) : s[i] = ":"})

\* C18: two calls of encrypt on the same plaintext and key return different
\* outputs: each output is the hex of that call's own IV, of the width of a
\* block, then the only colon, then the ciphertext.
C18_FreshIvPerCall ==
  /\ Len(cipherCall.outputs) = 2 => cipherCall.outputs[1] # cipherCall.outputs[2]
  /\ \A k \in 1..Len(cipherCall.outputs) :
       LET out == cipherCall.outputs[k]
       IN /\ Colons(out) = 1
          /\ Split(out, ":")[1] = ToHex(cipherCall.ivs[k])
          /\ Len(Split(out, ":")[1]) = 2 * BlockSize

\* a non-empty plaintext has been encrypted twice
C18_Witness ==
  /\ cipherCall.stage = "encryptedTwice"
  /\ cipherCall.text # <<>>
  /\ Len(cipherCall.outputs) = 2
  /\ cipherCall.ivs[1] # cipherCall.ivs[2]

IsHex(s) == \A i \in 1..Len(s) : IsHexDigit(s[i])

\* C19: decrypt returns a plaintext only for an input of exactly two
\* colon-separated segments that are both valid hex; it fails for every
\* other input, among them strings without a colon and strings whose
\* segments are too short.
C19_DecryptRejectsMalformed ==
  cipherCall.stage = "decrypted" =>
    /\ cipherCall.result.ok =>
         /\ Len(Split(cipherCall.input, ":")) = 2
         /\ IsHex(Split(cipherCall.input, ":")[1])
         /\ IsHex(Split(cipherCall.input, ":")[2])
    /\ cipherCall.how = "arbitrary" => ~cipherCall.result.ok

KeyInvalid == env.ENCRYPTION_KEY_LENGTH # 64

\* C20: a missing or malformed cipher key is found when the configuration
\* is loaded, before any event is processed: it is never first met by a
\* decrypt call in the middle of an event, nor handled as that event's
\* failure.
C20_KeyValidatedAtLoad ==
  KeyInvalid => (decrypts = 0 /\ chatbotError.kind # "decrypt")

TokenConfigured == ~Falsy(env.WEBHOOK_VERIFY_TOKEN)

GetAccepted ==
  /\ getCall.mode = Str("subscribe")
  /\ TokenConfigured
  /\ getCall.token = env.WEBHOOK_VERIFY_TOKEN

\* C21 (as claimed): GET answers 500 whenever the verify token is not
\* configured; otherwise 200 with the challenge as body exactly when mode is
\* "subscribe" and the token equals the configured one (and a challenge was
\* given); and 403 in every remaining case.
C21_VerificationStatus ==
  getCall.status # 0 =>
    IF ~TokenConfigured THEN getCall.status = 500
    ELSE IF GetAccepted /\ ~Falsy(getCall.challenge)
      THEN getCall.status = 200 /\ getCall.body = getCall.challenge.value
    ELSE getCall.status = 403

\* C21 (amended): GET answers 403 when a parameter is missing or empty or
\* mode is not "subscribe", whatever the configuration; otherwise 500 when
\* the verify token is not configured; otherwise 200 with the challenge as
\* body when the token matches, and 403 when it does not.
C21_ParametersBeforeConfiguration ==
  getCall.status # 0 =>
    IF Falsy(getCall.mode) \/ Falsy(getCall.token) \/ Falsy(getCall.challenge)
         \/ getCall.mode # Str("subscribe")
      THEN getCall.status = 403
    ELSE IF ~TokenConfigured THEN getCall.status = 500
    ELSE IF getCall.token = env.WEBHOOK_VERIFY_TOKEN
      THEN getCall.status = 200 /\ getCall.body = getCall.challenge.value
    ELSE getCall.status = 403

\* a request without a challenge was answered 403 while no verify token was
\* configured
C21_Witness ==
  /\ getCall.status = 403
  /\ ~TokenConfigured
  /\ getCall.mode = Str("subscribe")
  /\ getCall.token = Str(VerifyToken)
  /\ getCall.challenge = Undefined

InEvent ==
  pc \in {"AwaitFindUnique", "AwaitFindMany", "AwaitFetch", "AwaitJson",
          "AwaitErrorText", "AwaitSendFetch", "Backoff"}

NoWorkBeyondLookup ==
  /\ catalogFetches = 0
  /\ genRequests = 0
  /\ decrypts = 0
  /\ sendRequests = <<>>

ChannelKnown(ev) == facebookPageConnection[ev.pageId].exists

\* C22: an event without message text causes no channel lookup, and neither
\* it nor an event whose channel has no connection record causes a log
\* append, a catalog fetch, a generation call, a decryption or a delivery
\* call; the delivery is acknowledged.
C22_SkippedEventsDoNothing ==
  /\ InEvent => (CurrentEvent.hasMessage /\ CurrentEvent.text # <<>>)
  /\ (InEvent /\ pc # "AwaitFindUnique") => ChannelKnown(CurrentEvent)
  /\ \A j \in 1..Len(messageLog) :
       /\ messageLog[j].messageText # <<>>
       /\ facebookPageConnection[messageLog[j].pageId].exists
  /\ (pc \in {"NextEvent", "Acknowledged"} /\ evOutcome # <<>>) =>
       LET ev == Events[Len(evOutcome)]
       IN /\ (~ev.hasMessage \/ ev.text = <<>>) =>
               (lookups = 0 /\ NoWorkBeyondLookup)
          /\ (ev.hasMessage /\ ev.text # <<>> /\ ev.hasSender /\ ~ChannelKnown(ev)) =>
               (lookups = 1 /\ NoWorkBeyondLookup)
  /\ pc = "Acknowledged" => responses = <<200>>

\* a delivery of an event without text and an event for an unknown channel
\* has been acknowledged, the log still empty
C22_Witness ==
  /\ pc = "Acknowledged"
  /\ responses = <<200>>
  /\ evOutcome = <<"skipped", "unknownPage">>
  /\ lookups = 1
  /\ messageLog = <<>>
  /\ NoWorkBeyondLookup

\* C23: the events of a delivery are processed one after another in payload
\* order: while event k is being processed exactly the k-1 events before it
\* have finished, every send request belongs to the event in progress (or,
\* between events, to the one just finished), and an event has finished
\* only when none of its send requests and backoff waits is outstanding.
C23_EventsProcessedInOrder ==
  /\ (InEvent \/ pc = "NextEvent") => Len(evOutcome) = eventIndex - 1
  /\ Len(evOutcome) <= Len(Events)
  /\ \A k \in 1..Len(sendRequests) :
       sendRequests[k].ev = (IF InEvent THEN eventIndex ELSE Len(evOutcome))
  /\ ~InEvent =>
       /\ Len(sendOutcomes) = Len(sendRequests)
       /\ sendRequests # <<>> => Len(backoffs) = Len(sendRequests) - 1

\* the second event of a delivery was answered after a retry, the first
\* event having been answered before
C23_Witness ==
  /\ pc = "Acknowledged"
  /\ evOutcome = <<"replied", "replied">>
  /\ Len(messageLog) = 2
  /\ Len(sendRequests) = 2
  /\ sendRequests[1].ev = 2
  /\ sendRequests[2].ev = 2
  /\ backoffs = <<1000>>

\* the events of delivery h whose entry has been pushed
Logged(h) ==
  {i \in 1..Len(handlers[h].events) :
     /\ facebookPageConnection[LogEvent(h, handlers[h].events[i]).pageId].exists
     /\ \/ i < handlers[h].index
        \/ i = handlers[h].index /\ handlers[h].pc = "AwaitReply"}

RECURSIVE LoggedUpTo(_)
LoggedUpTo(h) == IF h = 0 THEN 0 ELSE Cardinality(Logged(h)) + LoggedUpTo(h - 1)

\* the entries of the log that delivery h pushed, in log order
RECURSIVE EntriesOf(_, _)
EntriesOf(log, sender) ==
  IF log = <<>> THEN <<>>
  ELSE IF Head(log).senderId = sender
    THEN <<Head(log)>> \o EntriesOf(Tail(log), sender)
  ELSE EntriesOf(Tail(log), sender)

\* C24: under every interleaving of deliveries handled at the same time,
\* every step leaves the log as it is or adds one complete entry at its end,
\* and the log holds one entry for every push made: none is lost, changed,
\* removed or reordered.
C24_LogOnlyGrows ==
  /\ [](Len(messageLog) = LoggedUpTo(NumDeliveries))
  /\ [](\A h \in 1..NumDeliveries :
          Len(EntriesOf(messageLog, LogEvent(h, 1).senderId)) = Cardinality(Logged(h)))
  /\ [][\/ messageLog' = messageLog
        \/ /\ Len(messageLog') = Len(messageLog) + 1
           /\ SubSeq(messageLog', 1, Len(messageLog)) = messageLog
           /\ messageLog'[Len(messageLog')] \in
                {LoggedMessage(facebookPageConnection[KnownPage], LogEvent(h, 1)) :
                   h \in 1..NumDeliveries}]_vars

\* the pushes of two deliveries have alternated in the log
C24_Witness ==
  /\ Len(messageLog) >= 3
  /\ messageLog[1].senderId = "psid_1"
  /\ messageLog[2].senderId = "psid_2"
  /\ messageLog[3].senderId = "psid_1"
  /\ \A h \in 1..NumDeliveries : handlers[h].pc = "Acknowledged"

\* the entries a delivery's events call for, in payload order
RECURSIVE ExpectedLog(_)
ExpectedLog(events) ==
  IF events = <<>> THEN <<>>
  ELSE LET ev == Head(events)
       IN (IF ev.hasMessage /\ ev.text # <<>> /\ ChannelKnown(ev)
             THEN <<[userId |-> facebookPageConnection[ev.pageId].user_id,
                     pageId |-> ev.pageId, senderId |-> ev.senderId,
                     messageText |-> ev.text]>>
           ELSE <<>>) \o ExpectedLog(Tail(events))

\* the delivery's events, without the one whose own channel lookup failed
EventsResolved ==
  [i \in 1..Len(Events) |->
     IF i <= Len(evOutcome) /\ evOutcome[i] = "aborted"
     THEN [Events[i] EXCEPT !.hasMessage = FALSE] ELSE Events[i]]

\* C25: when a validly signed delivery has been handled, the log holds
\* exactly one entry for each of its text events with a known channel, in
\* payload order, with that event's owner, channel, sender and text,
\* whatever became of catalog fetch, generation and delivery.  (An event
\* whose own lookup failed is not counted as having a known channel.)
C25_OneEntryPerKnownTextEvent ==
  ( /\ pc = "Acknowledged"
    /\ PostDecision(request, env) = "process"
    /\ \A i \in 1..Len(Events) : Events[i].hasSender )
  => messageLog = ExpectedLog(EventsResolved)

\* the event the per-event counters belong to
CountedEvent == IF InEvent THEN CurrentEvent ELSE Events[Len(evOutcome)]

\* generateChatbotResponse has been called for that event
GenInvoked ==
  /\ catalogFetches = 1
  /\ pc # "AwaitFindMany"
  /\ chatbotError.kind # "database"

\* C26 (as claimed): a call of generateChatbotResponse has issued no
\* request when the customer text is empty or white space, and exactly one
\* otherwise, whatever the answer was.
C26_OneRequestUnlessBlank ==
  /\ genRequests <= 1
  /\ GenInvoked =>
       genRequests = (IF Trim(CountedEvent.text) = <<>> THEN 0 ELSE 1)

\* C26 (amended): a call of generateChatbotResponse has issued no request
\* when the API key is not configured or the customer text is empty or
\* white space, and exactly one otherwise, whatever the answer was.
C26_OneRequestUnlessRefused ==
  /\ genRequests <= 1
  /\ GenInvoked =>
       genRequests = (IF env.GEMINI_API_KEY = "" \/ Trim(CountedEvent.text) = <<>>
                      THEN 0 ELSE 1)

\* a text of white space was refused after the catalog fetch, before any
\* request
C26_Witness ==
  /\ GenInvoked
  /\ CountedEvent.text = <<" ">>
  /\ env.GEMINI_API_KEY # ""
  /\ chatbotError = Err("emptyInput", 0)
  /\ genRequests = 0

\* C27: within one event the credential is decrypted at most once, only
\* after generation returned text, and the send request follows in the same
\* step; every send request of the event carries the decrypted value; a
\* failed decryption leaves the event without send request and the
\* delivery is still acknowledged with 200.
C27_DecryptOnceBeforeDelivery ==
  LET d == decrypt(pageConnection.page_access_token, env)
  IN /\ decrypts <= 1
     /\ decrypts = 1 =>
          /\ genRequests = 1
          /\ genStatus >= 200 /\ genStatus <= 299
          /\ chatbotError.kind \notin GenFailureKinds
          /\ IF d.ok THEN sendRequests # <<>>
             ELSE sendRequests = <<>> /\ chatbotError = Err("decrypt", 0)
     /\ sendRequests # <<>> => decrypts = 1 /\ d.ok
     /\ \A k \in 1..Len(sendRequests) : sendRequests[k].token = d.text
     /\ (pc = "Acknowledged" /\ chatbotError.kind = "decrypt") => responses = <<200>>

\* an event whose stored credential does not decrypt, acknowledged after a
\* successful generation and without send request
C27_Witness ==
  /\ pc = "Acknowledged"
  /\ responses = <<200>>
  /\ decrypts = 1
  /\ genRequests = 1
  /\ chatbotError = Err("decrypt", 0)
  /\ sendRequests = <<>>

\* ------------------------------------------------------------------------
\* The webhook beside the connect and disconnect routes, which change the
\* connection table while an event is being processed.

Users == {"user_1", "user_2"}
RotatedToken == <<"b", "a">>
ConnectTokens == {RotatedToken}

\* an event's catalog fetch or generation call is outstanding
Handling == pc \in {"AwaitFindMany"} \cup GenPending

\* deliveries signed by the platform that reach the loop over the events,
\* in a configured deployment with the page connected
InitConn ==
  /\ Init
  /\ PostDecision(request, env) = "process"
  /\ request.signature = Header(<<PrefixTok>> \o HmacSha256Hex(SignerSecret, request.body))
  /\ env = Env(SignerSecret, "key", 64)
  /\ facebookPageConnection[KnownPage] = Row(EncryptedToken)

RowOf(user, token) == [Row(token) EXCEPT !.user_id = user]

\* DELETE /api/facebook/disconnect of a signed-in user: 404 without a
\* connection, else the row is deleted
DELETE(user) ==
  /\ Handling
  /\ \E p \in DOMAIN facebookPageConnection :
       /\ facebookPageConnection[p].exists
       /\ facebookPageConnection[p].user_id = user
       /\ facebookPageConnection' = [facebookPageConnection EXCEPT ![p] = NoRow]
  /\ UNCHANGED <<env, request, pc, eventIndex, messageLog, responses, evOutcome,
                 eventVars, genVars, sendVars, countVars, verifyCall, pureVars>>

\* the OAuth callback of a signed-in user who selected the page: the page's
\* token is encrypted and upserted under the user's id; a failing encrypt
\* and a page connected to another user (unique facebook_page_id) end in
\* the catch without a write
Callback(user, token) ==
  /\ Handling
  /\ LET e == encrypt(token, StoredIv, env)
         row == facebookPageConnection[KnownPage]
     IN /\ e.ok
        /\ row.exists => row.user_id = user
        /\ facebookPageConnection' =
              [facebookPageConnection EXCEPT ![KnownPage] = RowOf(user, e.text)]
  /\ UNCHANGED <<env, request, pc, eventIndex, messageLog, responses, evOutcome,
                 eventVars, genVars, sendVars, countVars, verifyCall, pureVars>>

NextConn ==
  \/ Next
  \/ \E user \in Users : DELETE(user)
  \/ \E user \in Users, token \in ConnectTokens : Callback(user, token)

SpecConn == InitConn /\ [][NextConn]_vars

\* the in-flight event's connection is no longer what the table holds
ConnectionChanged ==
  pageConnection.exists /\ facebookPageConnection[KnownPage] # pageConnection

\* C28: the connection is looked up at most once per event; the log entry's
\* owner and the credential of every send request are those of the row
\* that lookup returned, whatever the connect and disconnect routes did to
\* the table since; a changed or deleted row does not stop the reply.
C28_ConnectionReadOnce ==
  LET d == decrypt(pageConnection.page_access_token, env)
  IN /\ lookups <= 1
     /\ pageConnection.exists =>
          /\ lookups = 1
          /\ messageLog # <<>>
          /\ messageLog[Len(messageLog)].userId = pageConnection.user_id
     /\ \A k \in 1..Len(sendRequests) : sendRequests[k].token = d.text
     /\ (decrypts = 1 /\ d.ok) => sendRequests # <<>>

\* a reply sent with the credential read at the lookup, after the page was
\* disconnected and connected again by another user with another token
C28_Witness ==
  /\ ConnectionChanged
  /\ pageConnection = Row(EncryptedToken)
  /\ facebookPageConnection[KnownPage].user_id = "user_2"
  /\ sendRequests # <<>>
  /\ sendRequests[1].token = PageToken
  /\ sendOutcomes # <<>>
  /\ evOutcome # <<>> /\ evOutcome[Len(evOutcome)] = "replied"

\* ------------------------------------------------------------------------
\* The rate limiter: checkRateLimit called for client addresses under one
\* configuration while time passes.

Max(a, b) == IF a >= b THEN a ELSE b

\* checkRateLimit(identifier, config): the result and the Map it leaves
checkRateLimit(identifier, config) ==
  LET entry == rateLimitStore[identifier]
  IN IF entry.exists /\ entry.blockedUntil # 0 /\ entry.blockedUntil > now
       THEN [result |-> Result(FALSE, 0, entry.resetTime, TRUE, entry.blockedUntil),
             store |-> rateLimitStore]
     ELSE IF ~entry.exists \/ entry.resetTime < now
       THEN LET newEntry == Entry(1, now + config.windowMs, 0)
            IN [result |-> Result(TRUE, config.maxRequests - 1, newEntry.resetTime,
                                  FALSE, 0),
                store |-> [rateLimitStore EXCEPT ![identifier] = newEntry]]
     ELSE LET counted == [entry EXCEPT !.count = @ + 1]
          IN [result |-> Result(counted.count <= config.maxRequests,
                                Max(0, config.maxRequests - counted.count),
                                counted.resetTime, FALSE, 0),
              store |-> [rateLimitStore EXCEPT ![identifier] = counted]]

\* the configuration of the registration route, and the same with a maximum
\* of one and of no request
RegisterConfig == RateLimitConfig(5, 15 * 60 * 1000, 0, 0)
ConfigSamples ==
  { [RegisterConfig EXCEPT !.maxRequests = m] : m \in {0, 1, RegisterConfig.maxRequests} }

InitLimit ==
  /\ HandlerIdle
  /\ verifyCall = NoVerifyCall
  /\ parseCall = NoParseCall
  /\ cipherCall = NoCipherCall
  /\ getCall = NoGetCall
  /\ handlers = <<>>
  /\ rateLimitStore = EmptyStore
  /\ now = StartTime
  /\ logins = NoLogins
  /\ \E config \in ConfigSamples : limiter = [NoLimiterCall EXCEPT !.config = config]

LimiterUnchanged ==
  UNCHANGED <<handlerVars, eventVars, genVars, sendVars, countVars, verifyCall,
              parseCall, cipherCall, getCall, handlers>>

\* five minutes pass
Tick ==
  /\ now < StartTime + MaxTicks * TickMs
  /\ now' = now + TickMs
  /\ UNCHANGED <<rateLimitStore, limiter, logins>>
  /\ LimiterUnchanged

\* a request from address ip reaches the rate-limited route; granted counts
\* the allowed results of the window the result reports
CheckRateLimit(ip) ==
  /\ rateLimitStore[ip].count < MaxCalls
  /\ LET r == checkRateLimit(ip, limiter.config)
         opened == ~rateLimitStore[ip].exists
                     \/ r.result.resetTime # rateLimitStore[ip].resetTime
         grant == IF r.result.allowed THEN 1 ELSE 0
     IN /\ rateLimitStore' = r.store
        /\ limiter' = [limiter EXCEPT !.result = r.result,
                                      !.granted[ip] = IF opened THEN grant ELSE @ + grant]
  /\ UNCHANGED <<now, logins>>
  /\ LimiterUnchanged

NextLimit ==
  \/ Tick
  \/ \E ip \in ClientIps : CheckRateLimit(ip)

SpecLimit == InitLimit /\ [][NextLimit]_vars

recordFailedAttempt(identifier, config) ==
  LET key == lockoutKey(identifier)
      entry == rateLimitStore[key]
      maxFailures == IF config.maxFailures # 0 THEN config.maxFailures ELSE 5
      lockoutDuration == IF config.lockoutDurationMs # 0
                           THEN config.lockoutDurationMs ELSE 15 * 60 * 1000
  IN IF ~entry.exists \/ entry.resetTime < now
       THEN [rateLimitStore EXCEPT ![key] = Entry(1, now + config.windowMs, 0)]
     ELSE LET counted == [entry EXCEPT !.count = @ + 1]
          IN [rateLimitStore EXCEPT ![key] =
                IF counted.count >= maxFailures
                THEN [counted EXCEPT !.blockedUntil = now + lockoutDuration]
                ELSE counted]

isLockedOut(identifier) ==
  LET entry == rateLimitStore[lockoutKey(identifier)]
  IN IF ~entry.exists \/ entry.blockedUntil = 0 THEN [locked |-> FALSE, until |-> 0]
     ELSE IF entry.blockedUntil > now THEN [locked |-> TRUE, until |-> entry.blockedUntil]
     ELSE [locked |-> FALSE, until |-> 0]

clearRateLimit(identifier) ==
  [rateLimitStore EXCEPT ![identifier] = NoEntry, ![lockoutKey(identifier)] = NoEntry]

\* the configuration authorize passes to recordFailedAttempt
AuthorizeConfig == RateLimitConfig(10, 15 * 60 * 1000, 5, 15 * 60 * 1000)

IdleLogin == [pc |-> "idle", password |-> ""]
Passwords == {"right", "wrong"}

InitLockout ==
  /\ HandlerIdle
  /\ verifyCall = NoVerifyCall
  /\ parseCall = NoParseCall
  /\ cipherCall = NoCipherCall
  /\ getCall = NoGetCall
  /\ handlers = <<>>
  /\ rateLimitStore = EmptyStore
  /\ now = StartTime
  /\ limiter = NoLimiterCall
  /\ logins = [NoLogins EXCEPT !.slots = [s \in 1..MaxLogins |-> IdleLogin]]

\* the lockout that the recorded failures call for is running
InPeriod ==
  logins.lockedAt # 0 /\ now < logins.lockedAt + AuthorizeConfig.lockoutDurationMs

\* authorize up to its first await: a locked account is rejected at once
Authorize(s, password) ==
  /\ logins.slots[s].pc = "idle"
  /\ ~isLockedOut(Email).locked
  /\ logins' = [logins EXCEPT !.slots[s] = [pc |-> "awaitUser", password |-> password]]
  /\ UNCHANGED <<rateLimitStore, now, limiter>>
  /\ LimiterUnchanged

\* the user lookup and bcrypt.compare have settled: a wrong password is
\* recorded as a failure, the right one clears the entries and signs in
AuthorizeSettles(s) ==
  /\ logins.slots[s].pc = "awaitUser"
  /\ IF logins.slots[s].password = "wrong"
       THEN LET store == recordFailedAttempt(Email, AuthorizeConfig)
                count == store[lockoutKey(Email)].count
            IN /\ rateLimitStore' = store
               /\ logins' = [logins EXCEPT
                     !.slots[s] = IdleLogin,
                     !.recordedDuring = @ \/ InPeriod,
                     !.lockedAt = IF InPeriod THEN @
                                  ELSE IF count >= AuthorizeConfig.maxFailures THEN now
                                  ELSE 0]
     ELSE /\ rateLimitStore' = clearRateLimit(Email)
          /\ logins' = [logins EXCEPT
                !.slots[s] = IdleLogin,
                !.acceptedDuring = @ \/ InPeriod,
                !.lockedAt = IF InPeriod THEN @ ELSE 0]
  /\ UNCHANGED <<now, limiter>>
  /\ LimiterUnchanged

NextLockout ==
  \/ Tick
  \/ \E s \in 1..MaxLogins, password \in Passwords : Authorize(s, password)
  \/ \E s \in 1..MaxLogins : AuthorizeSettles(s)

SpecLockout == InitLockout /\ [][NextLockout]_vars

\* C30: from the maxFailures-th failure recorded in a window until
\* lockoutDurationMs later the account is reported locked, no login for it
\* is accepted and no further failure is recorded; and the account is
\* reported locked at no other time.
C30_LockoutAfterMaxFailures ==
  /\ InPeriod => isLockedOut(Email).locked
  /\ ~logins.acceptedDuring
  /\ ~logins.recordedDuring
  /\ isLockedOut(Email).locked => InPeriod
====
